---- MODULE Spec2Model ----
(***************************************************************************)
(* Model of package ghostplay (src/ghostplay/ghostplay.go): the player     *)
(* table reached through database/sql, and the package's operations on it  *)
(* (initPlayer, GetUserStateByID, GetUserStateByPhrase, PlayerState.Save). *)
(*                                                                         *)
(* The table is named by the caller (dbTableName); no exported function    *)
(* creates it.  Two shapes of it appear in the source: the one that        *)
(* initPlayerStateTable creates (eight columns) and the one that the Scan  *)
(* destinations and the UPDATE statement of Save assume (five columns, the *)
(* last one named data).  The shape is fixed when a behaviour starts.      *)
(*                                                                         *)
(* SQL statements are modelled by what database/sql and PostgreSQL do with *)
(* them: SELECT * yields the row's values in column order, Scan assigns    *)
(* them by position and fails when the counts differ, a statement whose    *)
(* argument count differs from its placeholder count fails, and so does a  *)
(* statement that names a column the table does not have.                  *)
(***************************************************************************)
EXTENDS Integers, Sequences, FiniteSets, TLC

\* ------------------------------------------------------------------ bounds
\* player ids in use are 1..MaxID; 0 is uuid.Nil
MaxID == 2
\* levels of the rows a five-column table holds at the start are 1..MaxLevel
MaxLevel == 2
\* a caller reuses one state for at most MaxCalls Saves in a row
MaxCalls == 3

\* ------------------------------------------------------- values and inputs
NilUUID == 0
IDs == 0..MaxID
Callers == {"c1", "c2"}
UserNames == {"", "Ghost"}
Phrases == {"", "rune-7"}
\* XP increases handed to Save
Deltas == {0, 80, 250}
\* limits handed to GetLeaderboard
Limits == {-1, 0, 2}
\* a Go map is nil or a map; "{}" is the empty map
NilMap == "nil"
FlagValues == {NilMap, "{}"}
\* ExtraData values; BadExtra is a value json.Marshal rejects
BadExtra == "invalid"
ExtraValues == {"{}", BadExtra}
ZeroTime == "0001-01-01T00:00:00Z"
\* the value DEFAULT now() stores
Now == "now"
dbTableName == "players"

\* PlayerState[T]: a well-formed state for an id
BaseState(id) ==
  [ExtraData |-> "{}", XP |-> 0, Level |-> 1, LastUpdated |-> ZeroTime,
   ID |-> id, UserName |-> "Ghost", Phrase |-> "rune-7", Flags |-> "{}"]

\* the states a caller hands to Save: for every id (uuid.Nil too) the
\* well-formed state and the states that differ from it in one field
PlayerState ==
  UNION {{b, [b EXCEPT !.UserName = ""], [b EXCEPT !.Phrase = ""],
          [b EXCEPT !.Level = 0], [b EXCEPT !.Flags = NilMap],
          [b EXCEPT !.ExtraData = BadExtra]} : b \in {BaseState(id) : id \in IDs}}

\* var state PlayerState[T]: the zero value
ZeroState == [ExtraData |-> "{}", XP |-> 0, Level |-> 0, LastUpdated |-> ZeroTime,
              ID |-> NilUUID, UserName |-> "", Phrase |-> "", Flags |-> NilMap]

\* ------------------------------------------------------------- the table
\* columns of the table initPlayerStateTable creates, in order
PlayerStateColumns == <<"id", "phrase", "user_name", "level", "xp",
                        "last_updated", "flags", "extra_data">>
\* columns, in order, of the table Save's Scan and UPDATE are written for
ScanColumns == <<"id", "user_name", "level", "xp", "data">>
Schemas == {PlayerStateColumns, ScanColumns}

ColumnSet(cols) == {cols[i] : i \in 1..Len(cols)}

\* the level-up step of Save
LevelStep == 200

\* columns, table: the player table.  Per caller: pc (where its call stands),
\* op (the function called), p (the PlayerState or the arguments it passed),
\* xpIncrease, player and err (locals of Save), ret (the error returned, "nil"
\* for none), got (the state a Get returned), before (history: the rows that
\* had the call's id when the call queried the table), arg (history: the
\* state as the caller handed it to Save), limit and users (the argument and
\* the result of GetLeaderboard).  hist (history): the Saves a caller has made
\* so far on the state it keeps reusing.
VARIABLES columns, table, pc, op, p, xpIncrease, player, err, ret, got, before,
          arg, limit, users, hist

vars == <<columns, table, pc, op, p, xpIncrease, player, err, ret, got, before,
          arg, limit, users, hist>>

\* ---------------------------------------------------------- database/sql
\* the values of one row as SELECT * yields them: in column order
SelectStar(row, cols) == [i \in 1..Len(cols) |-> row[cols[i]]]

\* Row.Scan into &state.ID, &state.UserName, &state.Level, &state.XP,
\* &state.ExtraData of a zero PlayerState: by position, and an error when the
\* number of values is not the number of destinations.  Phrase, Flags and
\* LastUpdated are no destinations and keep their zero values.
Scan(vals) ==
  IF Len(vals) # 5
  THEN [err |-> TRUE, state |-> ZeroState]
  ELSE [err |-> FALSE,
        state |-> [ZeroState EXCEPT !.ID = vals[1], !.UserName = vals[2],
                                    !.Level = vals[3], !.XP = vals[4],
                                    !.ExtraData = vals[5]]]

\* json.Marshal of an ExtraData value: its JSON text, or an error
Marshal(v) == [err |-> v = BadExtra, bytes |-> v]

\* the row INSERT INTO t (id, user_name, phrase) stores: the other columns
\* take the defaults of CREATE TABLE
DefaultRow(id, username, phrase) ==
  [id |-> id, phrase |-> phrase, user_name |-> username, level |-> 1, xp |-> 0,
   last_updated |-> Now, flags |-> "{}", extra_data |-> "{}"]

\* variant: the phrase column without its UNIQUE constraint
initPlayerNoUnique(tbl, cols, id, username, phrase) ==
  LET args == <<id, username, phrase>> IN
  IF \/ ~({"id", "user_name", "phrase"} \subseteq ColumnSet(cols))
     \/ \E r \in tbl : r.id = args[1]
  THEN [err |-> TRUE, table |-> tbl]
  ELSE [err |-> FALSE, table |-> tbl \cup {DefaultRow(args[1], args[2], args[3])}]

\* initPlayer's INSERT: fails when the table lacks a named column, when the
\* id is taken (PRIMARY KEY) or the phrase is taken (UNIQUE)
initPlayer(tbl, cols, id, username, phrase) ==
  LET args == <<id, username, phrase>> IN
  IF \/ ~({"id", "user_name", "phrase"} \subseteq ColumnSet(cols))
     \/ \E r \in tbl : r.id = args[1]
     \/ \E r \in tbl : r.phrase = args[3]
  THEN [err |-> TRUE, table |-> tbl]
  ELSE [err |-> FALSE, table |-> tbl \cup {DefaultRow(args[1], args[2], args[3])}]

\* GetUserStateByID: (nil, nil) when no row has the id, (nil, error) when the
\* Scan fails, (&state, nil) otherwise
GetUserStateByID(tbl, cols, id) ==
  LET rows == {r \in tbl : r.id = id} IN
  IF rows = {}
  THEN [found |-> FALSE, err |-> FALSE, state |-> ZeroState]
  ELSE LET s == Scan(SelectStar(CHOOSE r \in rows : TRUE, cols)) IN
       [found |-> ~s.err, err |-> s.err, state |-> s.state]

\* GetUserStateByPhrase: QueryRow is handed dbTableName and phrase for the one
\* placeholder of WHERE phrase = $1
GetUserStateByPhrase(tbl, cols, phrase) ==
  LET args == <<dbTableName, phrase>> IN
  IF Len(args) # 1 \/ "phrase" \notin ColumnSet(cols)
  THEN [found |-> FALSE, err |-> TRUE, state |-> ZeroState]
  ELSE LET rows == {r \in tbl : r.phrase = args[1]} IN
       IF rows = {}
       THEN [found |-> FALSE, err |-> FALSE, state |-> ZeroState]
       ELSE LET s == Scan(SelectStar(CHOOSE r \in rows : TRUE, cols)) IN
            [found |-> ~s.err, err |-> s.err, state |-> s.state]

\* Save's xpThreshold for a fetched player whose XP has become xp
XpThreshold(pl, xp) == (pl.Level * LevelStep) + xp

\* Save: player.XP = player.XP + xpIncrease, then the level check
LevelUp(pl, d) ==
  LET xp == pl.XP + d
      xpThreshold == XpThreshold(pl, xp)
  IN  IF xpThreshold = 0
      THEN [panic |-> TRUE, player |-> [pl EXCEPT !.XP = xp]]
      ELSE [panic |-> FALSE,
            player |-> [pl EXCEPT !.XP = xp,
                                  !.Level = IF xp % xpThreshold = 0
                                            THEN pl.Level + 1 ELSE pl.Level]]

\* variant: the four arguments of the statement, with the caller's level
SaveArgsCallerLevel(p0, pl, extraData) == <<p0.Level, pl.XP, extraData, pl.ID>>

\* the arguments Save hands to db.Exec with its UPDATE
SaveArgs(p0, pl, extraData) == <<dbTableName, pl.Level, pl.XP, extraData, pl.ID>>

\* variant: the table name spliced into the statement and its WHERE clause
\* left out, so that the remaining arguments reach every row
ExecUpdateNoWhere(tbl, cols, args) ==
  IF ~({"level", "xp", "data", "id"} \subseteq ColumnSet(cols))
  THEN [err |-> TRUE, table |-> tbl]
  ELSE [err |-> FALSE,
        table |-> {[r EXCEPT !.level = args[2], !.xp = args[3], !.data = args[4]] :
                     r \in tbl}]
\* Save's UPDATE t SET level = $1, xp = $2, data = $3 WHERE id = $4
ExecUpdate(tbl, cols, args) ==
  IF Len(args) # 4 \/ ~({"level", "xp", "data", "id"} \subseteq ColumnSet(cols))
  THEN [err |-> TRUE, table |-> tbl]
  ELSE [err |-> FALSE,
        table |-> {IF r.id = args[4]
                   THEN [r EXCEPT !.level = args[1], !.xp = args[2], !.data = args[3]]
                   ELSE r : r \in tbl}]

\* the orders in which ORDER BY xp DESC may yield the rows of the table: rows
\* of equal xp come in any order
OrderedByXP(tbl) ==
  {s \in [1..Cardinality(tbl) -> tbl] :
     /\ \A i, j \in DOMAIN s : i # j => s[i] # s[j]
     /\ \A i, j \in DOMAIN s : i < j => s[i].xp >= s[j].xp}

\* rows.Scan into &user.UserName, &user.Level, &user.XP of a zero Leader
ScanLeader(vals) ==
  IF Len(vals) # 3
  THEN [err |-> TRUE, user |-> [UserName |-> "", Level |-> 0, XP |-> 0]]
  ELSE [err |-> FALSE,
        user |-> [UserName |-> vals[1], Level |-> vals[2], XP |-> vals[3]]]

\* GetLeaderboard on the rows in the order the query yields them: the database
\* refuses a negative LIMIT, LIMIT n yields the first n rows, and the first
\* row that does not scan ends the call with (nil, err)
GetLeaderboard(rows, cols, n) ==
  IF n < 0
  THEN [err |-> TRUE, users |-> <<>>]
  ELSE LET k == IF n < Len(rows) THEN n ELSE Len(rows)
           scanned == [i \in 1..k |-> ScanLeader(SelectStar(rows[i], cols))]
       IN  IF \E i \in 1..k : scanned[i].err
           THEN [err |-> TRUE, users |-> <<>>]
           ELSE [err |-> FALSE, users |-> [i \in 1..k |-> scanned[i].user]]

\* ------------------------------------------------------------------ Init
\* the rows a five-column table may hold when a behaviour starts: ids are
\* distinct, levels are at least 1
ScanRows == {[id |-> i, user_name |-> "Ghost", level |-> l, xp |-> (l - 1) * 150,
              data |-> "{}"] : i \in 1..MaxID, l \in 1..MaxLevel}
InitialTables(cols) ==
  IF cols = PlayerStateColumns
  THEN {{}}
  ELSE {t \in SUBSET ScanRows : \A r1, r2 \in t : r1.id = r2.id => r1 = r2}

NoResult == [found |-> FALSE, state |-> ZeroState]

\* no caller has called anything yet
InitCallers ==
  /\ pc = [c \in Callers |-> "idle"]
  /\ op = [c \in Callers |-> "none"]
  /\ p = [c \in Callers |-> ZeroState]
  /\ xpIncrease = [c \in Callers |-> 0]
  /\ player = [c \in Callers |-> ZeroState]
  /\ err = [c \in Callers |-> FALSE]
  /\ ret = [c \in Callers |-> "nil"]
  /\ got = [c \in Callers |-> NoResult]
  /\ before = [c \in Callers |-> {}]
  /\ arg = [c \in Callers |-> ZeroState]
  /\ limit = [c \in Callers |-> 0]
  /\ users = [c \in Callers |-> <<>>]
  /\ hist = <<>>

Init ==
  /\ columns \in Schemas
  /\ table \in InitialTables(columns)
  /\ InitCallers

\* --------------------------------------------------------------- actions
\* a call of initPlayer(db, id, username, phrase, dbTableName)
InitPlayerCall(c) ==
  /\ pc[c] = "idle"
  /\ \E id \in IDs, username \in UserNames, phrase \in Phrases :
       LET e == initPlayer(table, columns, id, username, phrase) IN
       /\ table' = e.table
       /\ ret' = [ret EXCEPT ![c] = IF e.err THEN "insert failed" ELSE "nil"]
       /\ p' = [p EXCEPT ![c] = [ZeroState EXCEPT !.ID = id, !.UserName = username,
                                                  !.Phrase = phrase]]
  /\ pc' = [pc EXCEPT ![c] = "done"]
  /\ op' = [op EXCEPT ![c] = "initPlayer"]
  /\ UNCHANGED <<columns, xpIncrease, player, err, got, before, arg, limit, users, hist>>

\* a call of GetUserStateByID(db, dbTableName, id)
GetByIDCall(c) ==
  /\ pc[c] = "idle"
  /\ \E id \in IDs :
       LET g == GetUserStateByID(table, columns, id) IN
       /\ got' = [got EXCEPT ![c] = [found |-> g.found, state |-> g.state]]
       /\ ret' = [ret EXCEPT ![c] = IF g.err
                                    THEN "ghostplay failed to query the database"
                                    ELSE "nil"]
       /\ p' = [p EXCEPT ![c] = [ZeroState EXCEPT !.ID = id]]
  /\ pc' = [pc EXCEPT ![c] = "done"]
  /\ op' = [op EXCEPT ![c] = "GetUserStateByID"]
  /\ UNCHANGED <<columns, table, xpIncrease, player, err, before, arg, limit, users, hist>>

\* a call of GetUserStateByPhrase(db, dbTableName, phrase)
GetByPhraseCall(c) ==
  /\ pc[c] = "idle"
  /\ \E phrase \in Phrases :
       LET g == GetUserStateByPhrase(table, columns, phrase) IN
       /\ got' = [got EXCEPT ![c] = [found |-> g.found, state |-> g.state]]
       /\ ret' = [ret EXCEPT ![c] = IF g.err THEN "query failed" ELSE "nil"]
       /\ p' = [p EXCEPT ![c] = [ZeroState EXCEPT !.Phrase = phrase]]
  /\ pc' = [pc EXCEPT ![c] = "done"]
  /\ op' = [op EXCEPT ![c] = "GetUserStateByPhrase"]
  /\ UNCHANGED <<columns, table, xpIncrease, player, err, before, arg, limit, users, hist>>

\* a call of GetLeaderboard(db, dbTableName, limit)
GetLeaderboardCall(c) ==
  /\ pc[c] = "idle"
  /\ \E n \in Limits, rows \in OrderedByXP(table) :
       LET g == GetLeaderboard(rows, columns, n) IN
       /\ limit' = [limit EXCEPT ![c] = n]
       /\ users' = [users EXCEPT ![c] = g.users]
       /\ ret' = [ret EXCEPT ![c] = IF g.err THEN "leaderboard query failed" ELSE "nil"]
  /\ pc' = [pc EXCEPT ![c] = "done"]
  /\ op' = [op EXCEPT ![c] = "GetLeaderboard"]
  /\ UNCHANGED <<columns, table, p, xpIncrease, player, err, got, before, arg, hist>>

\* p.Save(db, dbTableName, xpIncrease), up to the return of GetUserStateByID:
\* an error of the query ends the call, and so does an unknown id (the call
\* logs and returns nil)
SaveBegin(c, p0, d) ==
  LET g == GetUserStateByID(table, columns, p0.ID) IN
  /\ arg' = [arg EXCEPT ![c] = p0]
  /\ p' = [p EXCEPT ![c] = p0]
  /\ xpIncrease' = [xpIncrease EXCEPT ![c] = d]
  /\ player' = [player EXCEPT ![c] = g.state]
  /\ before' = [before EXCEPT ![c] = {r \in table : r.id = p0.ID}]
  /\ err' = [err EXCEPT ![c] = g.err]
  /\ ret' = [ret EXCEPT ![c] = IF g.err THEN "failed to update player stats"
                               ELSE "nil"]
  /\ pc' = [pc EXCEPT ![c] = IF g.found THEN "fetched" ELSE "done"]
  /\ op' = [op EXCEPT ![c] = "Save"]
  /\ UNCHANGED <<columns, table, got, limit, users>>

\* a caller hands a state and an XP increase to Save
SaveFetch(c) ==
  /\ pc[c] = "idle"
  /\ \E p0 \in PlayerState, d \in Deltas : SaveBegin(c, p0, d)
  /\ UNCHANGED hist

\* the rest of Save for a player that was found: the XP and level arithmetic,
\* json.Marshal of p.ExtraData, the UPDATE, whose error is dropped, return nil
SaveExec(c) ==
  /\ pc[c] = "fetched"
  /\ LET l == LevelUp(player[c], xpIncrease[c])
         m == Marshal(p[c].ExtraData)
         e == ExecUpdate(table, columns, SaveArgs(p[c], l.player, m.bytes))
     IN  /\ player' = [player EXCEPT ![c] = l.player]
         /\ IF l.panic
            THEN /\ ret' = [ret EXCEPT ![c] = "panic: integer divide by zero"]
                 /\ err' = err
                 /\ table' = table
            ELSE IF m.err
            THEN /\ ret' = [ret EXCEPT ![c] = "ghostplay is unable to marshal extraData"]
                 /\ err' = [err EXCEPT ![c] = TRUE]
                 /\ table' = table
            ELSE /\ ret' = [ret EXCEPT ![c] = "nil"]
                 /\ err' = [err EXCEPT ![c] = e.err]
                 /\ table' = e.table
  /\ pc' = [pc EXCEPT ![c] = "done"]
  /\ UNCHANGED <<columns, op, p, xpIncrease, got, before, arg, limit, users, hist>>

\* the caller takes the result; its next call starts from fresh arguments and
\* a fresh state
Return(c) ==
  /\ pc[c] = "done"
  /\ pc' = [pc EXCEPT ![c] = "idle"]
  /\ op' = [op EXCEPT ![c] = "none"]
  /\ p' = [p EXCEPT ![c] = ZeroState]
  /\ xpIncrease' = [xpIncrease EXCEPT ![c] = 0]
  /\ player' = [player EXCEPT ![c] = ZeroState]
  /\ err' = [err EXCEPT ![c] = FALSE]
  /\ ret' = [ret EXCEPT ![c] = "nil"]
  /\ got' = [got EXCEPT ![c] = NoResult]
  /\ before' = [before EXCEPT ![c] = {}]
  /\ arg' = [arg EXCEPT ![c] = ZeroState]
  /\ limit' = [limit EXCEPT ![c] = 0]
  /\ users' = [users EXCEPT ![c] = <<>>]
  /\ hist' = <<>>
  /\ UNCHANGED <<columns, table>>

\* callers that call concurrently, each call with fresh arguments
Next ==
  \E c \in Callers :
    \/ InitPlayerCall(c)
    \/ GetByIDCall(c)
    \/ GetByPhraseCall(c)
    \/ GetLeaderboardCall(c)
    \/ SaveFetch(c)
    \/ SaveExec(c)
    \/ Return(c)

Spec == Init /\ [][Next]_vars

\* ------------------------------------------- one caller, one state reused
\* the caller whose calls follow one another
Reuser == "c1"

\* what hist keeps of the Save that has just returned
Returned(c) == [d |-> xpIncrease[c], ret |-> ret[c], new |-> before[c] = {}]

SeqInitPlayer == InitPlayerCall(Reuser)

SeqSave == SaveFetch(Reuser)

SeqSaveExec == SaveExec(Reuser)

\* Save is called again on the state the last Save left in the caller's hands
SeqSaveAgain ==
  /\ pc[Reuser] = "done" /\ op[Reuser] = "Save"
  /\ Len(hist) + 1 < MaxCalls
  /\ \E d \in Deltas : SaveBegin(Reuser, p[Reuser], d)
  /\ hist' = Append(hist, Returned(Reuser))

\* after a Save that returned nil the caller reads the state back by its id
SeqGetByID ==
  /\ pc[Reuser] = "done" /\ op[Reuser] = "Save" /\ ret[Reuser] = "nil"
  /\ Len(hist) + 1 < MaxCalls
  /\ LET g == GetUserStateByID(table, columns, p[Reuser].ID) IN
       /\ got' = [got EXCEPT ![Reuser] = [found |-> g.found, state |-> g.state]]
       /\ ret' = [ret EXCEPT ![Reuser] = IF g.err
                                         THEN "ghostplay failed to query the database"
                                         ELSE "nil"]
  /\ op' = [op EXCEPT ![Reuser] = "GetUserStateByID"]
  /\ hist' = Append(hist, Returned(Reuser))
  /\ UNCHANGED <<columns, table, pc, p, xpIncrease, player, err, before, arg,
                 limit, users>>

\* after a Save that returned nil the caller reads the state back by its phrase
SeqGetByPhrase ==
  /\ pc[Reuser] = "done" /\ op[Reuser] = "Save" /\ ret[Reuser] = "nil"
  /\ Len(hist) + 1 < MaxCalls
  /\ LET g == GetUserStateByPhrase(table, columns, p[Reuser].Phrase) IN
       /\ got' = [got EXCEPT ![Reuser] = [found |-> g.found, state |-> g.state]]
       /\ ret' = [ret EXCEPT ![Reuser] = IF g.err THEN "query failed" ELSE "nil"]
  /\ op' = [op EXCEPT ![Reuser] = "GetUserStateByPhrase"]
  /\ hist' = Append(hist, Returned(Reuser))
  /\ UNCHANGED <<columns, table, pc, p, xpIncrease, player, err, before, arg,
                 limit, users>>

SeqReturn == Return(Reuser)

NextSeq ==
  \/ SeqInitPlayer
  \/ SeqSave
  \/ SeqSaveExec
  \/ SeqSaveAgain
  \/ SeqGetByID
  \/ SeqGetByPhrase
  \/ SeqReturn

\* the rows a five-column table may hold when the one caller starts: as
\* ScanRows, with XP below and above the level's threshold
SeqXPs == {0, 150, 450}
SeqRows == {[id |-> i, user_name |-> "Ghost", level |-> l, xp |-> x, data |-> "{}"] :
              i \in 1..MaxID, l \in 1..MaxLevel, x \in SeqXPs}

InitSeq ==
  /\ columns \in Schemas
  /\ table \in IF columns = PlayerStateColumns
              THEN {{}}
              ELSE {t \in SUBSET SeqRows : \A r1, r2 \in t : r1.id = r2.id => r1 = r2}
  /\ InitCallers

SpecSeq == InitSeq /\ [][NextSeq]_vars

TypeOK ==
  /\ columns \in Schemas
  /\ \A c \in Callers : pc[c] \in {"idle", "fetched", "done"}
  /\ Len(hist) < MaxCalls

\* ================================================================ claims
\* the rows stored for an id
Stored(id) == {r \in table : r.id = id}
\* caller c's call of Save has returned
SaveDone(c) == pc[c] = "done" /\ op[c] = "Save"
\* the step in which caller c's call of Save returns
SaveReturns(c) == pc[c] # "done" /\ pc'[c] = "done" /\ op'[c] = "Save"
\* the error kind the documentation names for malformed input
ErrInvalidData == "invalid player data"
\* the error kind the documentation names for a player that is not stored
ErrPlayerNotFound == "player not found"

\* C1: a Save with non-empty UserName and Phrase for an identity that has no
\* stored record succeeds and leaves a record of that identity with level 1
\* and xp equal to the increase.
C1_FirstSaveCreates ==
  \A c \in Callers :
    (SaveDone(c) /\ p[c].UserName # "" /\ p[c].Phrase # "" /\ before[c] = {})
      => /\ ret[c] = "nil"
         /\ \E r \in Stored(p[c].ID) : r.level = 1 /\ r.xp = xpIncrease[c]

\* C2: a Save on an identity stored with level L and xp x, with
\* x + d >= L*200, leaves it stored with level L+1 and xp x + d.
C2_LevelUpByOne ==
  \A c \in Callers : \A r0 \in before[c] :
    (SaveDone(c) /\ r0.xp + xpIncrease[c] >= r0.level * LevelStep)
      => /\ Stored(r0.id) # {}
         /\ \A r \in Stored(r0.id) :
              r.level = r0.level + 1 /\ r.xp = r0.xp + xpIncrease[c]

\* C3: a Save on an identity stored with level L and xp x, with
\* x + d < L*200, leaves it stored with level L and xp x + d.
C3_BelowThreshold ==
  \A c \in Callers : \A r0 \in before[c] :
    (SaveDone(c) /\ r0.xp + xpIncrease[c] < r0.level * LevelStep)
      => /\ Stored(r0.id) # {}
         /\ \A r \in Stored(r0.id) :
              r.level = r0.level /\ r.xp = r0.xp + xpIncrease[c]

\* C4: no step lowers the stored level of an identity or removes its record.
C4_LevelStep ==
  \A r \in table : \E r2 \in table' : r2.id = r.id /\ r2.level >= r.level
C5_Step ==
  \A c \in Callers :
    SaveReturns(c) =>
      /\ ret'[c] # "nil" => table' = table
      /\ err'[c] => ret'[c] # "nil"
C5_ErrorMeansNothingCommitted == [][C5_Step]_vars

\* C6: two Saves in a row with the same new identity and the same increase d:
\* neither fails, the second finds the record the first created, and exactly
\* one record of the identity is stored, with xp d + d.
C6_SecondSaveUpdates ==
  (/\ SaveDone(Reuser) /\ Len(hist) = 1 /\ hist[1].new
   /\ hist[1].d = xpIncrease[Reuser]
   /\ p[Reuser].UserName # "" /\ p[Reuser].Phrase # "")
    => /\ hist[1].ret = "nil" /\ ret[Reuser] = "nil"
       /\ before[Reuser] # {}
       /\ Cardinality(Stored(p[Reuser].ID)) = 1
       /\ \A r \in Stored(p[Reuser].ID) : r.xp = xpIncrease[Reuser] + xpIncrease[Reuser]

\* the sum of the increases of the Saves in h that returned nil
RECURSIVE SumDeltas(_)
SumDeltas(h) ==
  IF h = <<>> THEN 0
  ELSE (IF h[1].ret = "nil" THEN h[1].d ELSE 0) + SumDeltas(Tail(h))

\* the Saves the one caller has made on its state, the last one included
Calls == Append(hist, Returned(Reuser))

\* C11: after a sequence of Saves of one caller for one identity that the
\* first of them created, the stored xp is the sum of the increases of the
\* Saves that returned nil.
C11_XPIsSumOfDeltas ==
  (/\ SaveDone(Reuser) /\ Calls[1].new
   /\ p[Reuser].UserName # "" /\ p[Reuser].Phrase # ""
   /\ \E i \in 1..Len(Calls) : Calls[i].ret = "nil")
    => /\ Stored(p[Reuser].ID) # {}
       /\ \A r \in Stored(p[Reuser].ID) : r.xp = SumDeltas(Calls)

\* C12: GetLeaderboard(n) with n > 0 returns at most n entries, which are the
\* first entries of the table in some descending order of xp; with n <= 0 it
\* fails and returns no entries (the formula asks for an error of any kind,
\* the claim for the invalid-data error).
C12_Step ==
  \A c \in Callers :
    (pc[c] = "idle" /\ op'[c] = "GetLeaderboard")
      => /\ limit'[c] > 0 =>
              /\ Len(users'[c]) <= limit'[c]
              /\ \E rows \in OrderedByXP(table) :
                   \A i \in 1..Len(users'[c]) :
                     /\ users'[c][i].XP = rows[i].xp
                     /\ users'[c][i].Level = rows[i].level
                     /\ users'[c][i].UserName = rows[i].user_name
         /\ limit'[c] <= 0 => ret'[c] # "nil" /\ users'[c] = <<>>
C12_Leaderboard == [][C12_Step]_vars

\* C13: a GetUserStateByID or GetUserStateByPhrase that follows a Save that
\* returned nil, with the id or the phrase of the saved state, succeeds and
\* returns the XP, Level, Flags and ExtraData the caller's state holds.
C13_ReadAfterWrite ==
  (/\ pc[Reuser] = "done" /\ hist # <<>>
   /\ op[Reuser] \in {"GetUserStateByID", "GetUserStateByPhrase"})
    => /\ ret[Reuser] = "nil" /\ got[Reuser].found
       /\ got[Reuser].state.XP = p[Reuser].XP
       /\ got[Reuser].state.Level = p[Reuser].Level
       /\ got[Reuser].state.Flags = p[Reuser].Flags
       /\ got[Reuser].state.ExtraData = p[Reuser].ExtraData

\* C14: GetUserStateByID with a non-nil id that no record has, and
\* GetUserStateByPhrase with a non-empty phrase that no record has, return no
\* state and the player-not-found error, and leave the table as it was.
C14_Step ==
  \A c \in Callers :
    (/\ pc[c] = "idle"
     /\ \/ /\ op'[c] = "GetUserStateByID"
            /\ p'[c].ID # NilUUID /\ Stored(p'[c].ID) = {}
        \/ /\ op'[c] = "GetUserStateByPhrase"
            /\ p'[c].Phrase # ""
            /\ ~\E r \in table : /\ "phrase" \in ColumnSet(columns)
                                 /\ r.phrase = p'[c].Phrase)
      => /\ ret'[c] = ErrPlayerNotFound
         /\ ~got'[c].found
         /\ table' = table
C14_NotFound == [][C14_Step]_vars

C16_Step ==
  (/\ pc[Reuser] = "fetched" /\ pc'[Reuser] = "done"
   /\ xpIncrease[Reuser] = 0 /\ hist # <<>>)
    => \A r \in Stored(p[Reuser].ID) : \E r2 \in table' :
         /\ r2.id = r.id /\ r2.xp = r.xp
         /\ r2.level = IF r.xp >= r.level * LevelStep THEN r.level + 1 ELSE r.level
C16_ZeroDeltaClimbs == [][C16_Step]_vars

\* C17: a step of a Save leaves the id, user name and phrase of every record
\* as they were, removes and adds no record, and changes no record of an
\* identity other than the caller's.
C17_Step ==
  \A c \in Callers :
    ((pc[c] = "idle" \/ pc[c] = "fetched") /\ op'[c] = "Save" /\ pc'[c] # pc[c])
      => /\ {r.id : r \in table'} = {r.id : r \in table}
         /\ \A r \in table : \E r2 \in table' :
              /\ r2.id = r.id /\ r2.user_name = r.user_name
              /\ "phrase" \in ColumnSet(columns) => r2.phrase = r.phrase
              /\ r.id # p'[c].ID => r2 = r
C17_SaveFrame == [][C17_Step]_vars

\* C17 witness: a Save of a state without a user name, for a stored identity
\* with a user name, has run its UPDATE and returned nil while another
\* identity is stored
C17_Witness ==
  \E c \in Callers :
    /\ SaveDone(c) /\ before[c] # {} /\ ret[c] = "nil"
    /\ p[c].UserName = "" /\ \A r \in Stored(p[c].ID) : r.user_name # ""
    /\ \E r \in table : r.id # p[c].ID

\* C18: while the one caller reuses its state for Saves, the level-up check of
\* an update compares with the stored level times 200, and after a Save that
\* returned nil the caller's Level and XP are the stored ones.
C18_CallerMirrorsStore ==
  /\ pc[Reuser] = "fetched"
       => \A r \in Stored(p[Reuser].ID) :
            XpThreshold(player[Reuser], player[Reuser].XP + xpIncrease[Reuser])
              = r.level * LevelStep
  /\ (SaveDone(Reuser) /\ ret[Reuser] = "nil")
       => \A r \in Stored(p[Reuser].ID) :
            p[Reuser].Level = r.level /\ p[Reuser].XP = r.xp

\* C19: a Save of a state whose ID was uuid.Nil has given the state an ID,
\* has failed when the state's phrase was stored already, and has left every
\* record that was stored as it was.
C19_Step ==
  \A c \in Callers :
    (SaveReturns(c) /\ arg'[c].ID = NilUUID)
      => /\ p'[c].ID # NilUUID
         /\ (\E r \in table : /\ "phrase" \in ColumnSet(columns)
                               /\ r.phrase = arg'[c].Phrase)
              => ret'[c] # "nil"
         /\ table \subseteq table'
C19_NilIDCreates == [][C19_Step]_vars

\* C7: when two Saves of one stored identity both read its xp x before either
\* writes and both return nil, the stored xp is x + d1 or x + d2.
C7_LostUpdate ==
  \A c1, c2 \in Callers : \A r0 \in before[c1] :
    (/\ c1 # c2 /\ SaveDone(c1) /\ SaveDone(c2)
     /\ before[c2] = before[c1]
     /\ ret[c1] = "nil" /\ ret[c2] = "nil"
     /\ xpIncrease[c1] > 0 /\ xpIncrease[c2] > 0)
      => \E r \in Stored(r0.id) :
           r.xp \in {r0.xp + xpIncrease[c1], r0.xp + xpIncrease[c2]}

\* C7, the other way round: no state is reached in which two such Saves have
\* returned nil and the stored xp is that of one of them alone
C7_NoWriteLands ==
  \A c \in Callers : \A r0 \in before[c] :
    (SaveDone(c) /\ xpIncrease[c] > 0)
      => \A r \in Stored(r0.id) : r.xp # r0.xp + xpIncrease[c]

\* C8: after a Save that returned nil the caller's Flags is a map, and the
\* state a successful GetUserStateByID or GetUserStateByPhrase returns has a
\* map for Flags.
C8_FlagsNeverNil ==
  \A c \in Callers :
    (pc[c] = "done" /\ ret[c] = "nil")
      => /\ op[c] = "Save" => p[c].Flags # NilMap
         /\ (op[c] \in {"GetUserStateByID", "GetUserStateByPhrase"} /\ got[c].found)
              => got[c].state.Flags # NilMap

\* C9: a Save whose UserName or Phrase is empty returns the invalid-data
\* error and leaves the table as it was.
C9_Step ==
  \A c \in Callers :
    (SaveReturns(c) /\ (p'[c].UserName = "" \/ p'[c].Phrase = ""))
      => ret'[c] = ErrInvalidData /\ table' = table
C9_EmptyNameRejected == [][C9_Step]_vars

\* C10: no two stored records share an id, and no two share a phrase.
C10_UniqueIdAndPhrase ==
  \A r1, r2 \in table :
    r1 # r2 => /\ r1.id # r2.id
               /\ "phrase" \in ColumnSet(columns) => r1.phrase # r2.phrase

\* C10 witness: two records are stored, an insert of a taken id or phrase was
\* refused, and a Save for an unknown id ran meanwhile
C10_Witness ==
  /\ Cardinality(table) = 2
  /\ \E c1, c2 \in Callers :
       /\ pc[c1] = "done" /\ op[c1] = "initPlayer" /\ ret[c1] # "nil"
       /\ SaveDone(c2) /\ before[c2] = {}

====
